---- MODULE Spec2Model ----
(***************************************************************************)
(* Bin packing heuristics of the notebook (next_fit, first_fit,            *)
(* first_fit_decreasing) and the packing validator is_valid_packing.       *)
(*                                                                         *)
(* Sizes are exact rationals with denominator 100: the integer w stands    *)
(* for the width w/100, so the unit capacity 1 of the code is Capacity.    *)
(* Python indices are 0-based; sequences here are 1-based, so item i of    *)
(* the code is position i+1 and the loop variable i counts the items       *)
(* already processed.                                                      *)
(***************************************************************************)
EXTENDS Integers, Sequences, FiniteSets

VARIABLES alg, pc, box_widths, indices, bins, current_bin, available_space,
          i, j, is_box_placed, x, k, result, printed

vars == <<alg, pc, box_widths, indices, bins, current_bin, available_space,
          i, j, is_box_placed, x, k, result, printed>>

\* The bin capacity 1 (available_space = 1), in hundredths.
Capacity == 100

\* Largest number of boxes given to a packer.
MaxBoxes == 4

\* Largest number of boxes and of bins in a direct call of the validator.
MaxValBoxes == 2
MaxValBins == 2

\* Largest number of boxes of a run of first_fit_decreasing that is repeated
\* on a rearrangement of its widths.
MaxPermBoxes == 4

\* The most boxes of a call that is followed to its end under fairness.
MaxFairBoxes == 3

\* Widths given to the packers: a grid of [0, 1] with both ends.
Widths == {0, 25, 50, 75, 100}

\* Widths given to the run of first_fit_decreasing that is repeated.
PermWidths == {0, 25, 50, 100}

\* Widths given to the validator directly: below 0, the ends, inside, above 1.
ValWidths == {-25, 0, 50, 100, 125}

\* Entries of the membership vectors given to the validator directly.
ValEntries == {0, 1, 2}

Packers == {"next_fit", "first_fit", "first_fit_decreasing"}

\* items = np.array([0.09, 0.69, 0.79, 0.29, 0.89, 0.19])
items == <<9, 69, 79, 29, 89, 19>>

SeqsUpTo(S, n) == UNION {[1..m -> S] : m \in 0..n}

\* np.zeros(n)
Zeros(n) == [p \in 1..n |-> 0]

\* b with entry p set to 1: b[p] = 1
SetOne(b, p) == [b EXCEPT ![p] = 1]

----------------------------------------------------------------------------
(* is_valid_packing *)

\* A plausible slip: only the upper end is checked.
OutOfRangeAbove(w) == \E p \in 1..Len(w) : w[p] > Capacity

\* A plausible slip: the ends 0 and 1 are rejected too.
OutOfRangeOrEnd(w) ==
  (\E p \in 1..Len(w) : w[p] >= Capacity) \/ (\E p \in 1..Len(w) : w[p] <= 0)

\* np.any(box_widths > 1) or np.any(box_widths < 0)
OutOfRange(w) == (\E p \in 1..Len(w) : w[p] > Capacity) \/ (\E p \in 1..Len(w) : w[p] < 0)

\* np.sum(box_widths[b == 1]) over the first m positions
RECURSIVE MaskedSum(_, _, _)
MaskedSum(w, b, m) ==
  IF m = 0 THEN 0
  ELSE MaskedSum(w, b, m - 1) + (IF b[m] = 1 THEN w[m] ELSE 0)

\* A plausible slip: a bin filled exactly counts as overfull.
CapacityReached(w, b) == MaskedSum(w, b, Len(w)) >= Capacity

\* np.sum(box_widths[b == 1]) > 1
CapacityExceeded(w, b) == MaskedSum(w, b, Len(w)) > Capacity

\* x += b
AddVec(a, b) == [p \in 1..Len(a) |-> a[p] + b[p]]

\* A plausible slip: only unassigned boxes are looked for.
AnyBelowOne(a) == \E p \in 1..Len(a) : a[p] < 1

\* np.any(x != 1)
AnyNotOne(a) == \E p \in 1..Len(a) : a[p] # 1

\* The range check and the allocation of x from bins[0].
ValidateCheck ==
  /\ pc = "v_check"
  /\ IF OutOfRange(box_widths)
       THEN /\ result' = "ValueError"
            /\ pc' = "done"
            /\ x' = x
     ELSE IF Len(bins) = 0
       THEN /\ result' = "IndexError"
            /\ pc' = "done"
            /\ x' = x
     ELSE /\ x' = Zeros(Len(bins[1]))
          /\ pc' = "v_loop"
          /\ result' = result
  /\ UNCHANGED <<alg, box_widths, indices, bins, current_bin, available_space,
                 i, j, is_box_placed, k, printed>>

\* One iteration of `for b in bins`.
ValidateBin ==
  /\ pc = "v_loop"
  /\ k < Len(bins)
  /\ IF CapacityExceeded(box_widths, bins[k + 1])
       THEN /\ result' = "False"
            /\ pc' = "done"
            /\ UNCHANGED <<x, k>>
       ELSE /\ x' = AddVec(x, bins[k + 1])
            /\ k' = k + 1
            /\ UNCHANGED <<result, pc>>
  /\ UNCHANGED <<alg, box_widths, indices, bins, current_bin, available_space,
                 i, j, is_box_placed, printed>>

\* After the loop: the test of x and the return.
ValidateFinal ==
  /\ pc = "v_loop"
  /\ k = Len(bins)
  /\ result' = IF AnyNotOne(x) THEN "False" ELSE "True"
  /\ pc' = "done"
  /\ UNCHANGED <<alg, box_widths, indices, bins, current_bin, available_space,
                 i, j, is_box_placed, x, k, printed>>

----------------------------------------------------------------------------
(* next_fit *)

\* A plausible slip: the box is compared with the capacity of an empty bin.
TooWideForEmptyBin(box_width, space) == box_width > Capacity

\* A plausible slip: a box as wide as the space left opens a new bin.
TooWideOrEqual(box_width, space) == box_width >= space

\* box_width > available_space
TooWide(box_width, space) == box_width > space

\* A plausible slip: the bin just closed is reused without a fresh allocation.
OpenBinStale(too_wide, cur, n) == cur

\* The bin the box is placed in: current_bin = np.zeros(num_boxes) when the
\* box is too wide, else the current bin.
OpenBin(too_wide, cur, n) == IF too_wide THEN Zeros(n) ELSE cur

\* A plausible slip: the final bin is appended only when it holds a box.
AppendFinalIfUsed(bs, cur) ==
  IF \E p \in 1..Len(cur) : cur[p] = 1 THEN Append(bs, cur) ELSE bs

\* bins.append(current_bin) # Append the final bin.
AppendFinal(bs, cur) == Append(bs, cur)

\* One iteration of `for i in range(num_boxes)`.
NextFitStep ==
  /\ alg = "next_fit"
  /\ pc = "nf_for"
  /\ i < Len(box_widths)
  /\ LET box_width == box_widths[i + 1]
         too_wide == TooWide(box_width, available_space)
         open_bin == OpenBin(too_wide, current_bin, Len(box_widths))
         space == IF too_wide THEN Capacity ELSE available_space
     IN /\ bins' = IF too_wide THEN Append(bins, current_bin) ELSE bins
        /\ current_bin' = SetOne(open_bin, i + 1)
        /\ available_space' = space - box_width
  /\ i' = i + 1
  /\ UNCHANGED <<alg, pc, box_widths, indices, j, is_box_placed, x, k, result,
                 printed>>

\* bins.append(current_bin); return tuple(bins); then the caller's
\* assert is_valid_packing(box_widths, bins).
NextFitReturn ==
  /\ alg = "next_fit"
  /\ pc = "nf_for"
  /\ i = Len(box_widths)
  /\ bins' = AppendFinal(bins, current_bin)
  /\ pc' = "v_check"
  /\ UNCHANGED <<alg, box_widths, indices, current_bin, available_space,
                 i, j, is_box_placed, x, k, result, printed>>

----------------------------------------------------------------------------
(* first_fit *)

\* box_widths[indices]
Permute(w, perm) == [p \in 1..Len(perm) |-> w[perm[p]]]

\* The argument first_fit is called with: the caller's box_widths, or
\* box_widths[indices] when first_fit_decreasing calls it.
FirstFitWidths ==
  IF alg = "first_fit_decreasing" THEN Permute(box_widths, indices) ELSE box_widths

\* A plausible slip: the box is compared with the capacity of an empty bin.
FitsEmptyBin(box_width, space) == box_width < Capacity

\* A plausible slip: a box as wide as the space left is let in, as next_fit does.
FitsOrEqual(box_width, space) == box_width <= space

\* box_width < available_space[j]
Fits(box_width, space) == box_width < space

\* Head of `for i in range(box_widths.size)`: is_box_placed = False; j = 0.
FirstFitNextBox ==
  /\ alg \in {"first_fit", "first_fit_decreasing"}
  /\ pc = "ff_for"
  /\ i < Len(FirstFitWidths)
  /\ is_box_placed' = FALSE
  /\ j' = 0
  /\ pc' = "ff_while"
  /\ UNCHANGED <<alg, box_widths, indices, bins, current_bin, available_space,
                 i, x, k, result, printed>>

\* A plausible slip: j += 1 is forgotten when the box does not fit bin j.
FirstFitProbeNoAdvance ==
  /\ pc = "ff_while"
  /\ ~is_box_placed
  /\ j < Len(bins)
  /\ LET box_width == FirstFitWidths[i + 1]
     IN IF Fits(box_width, available_space[j + 1])
          THEN /\ bins' = [bins EXCEPT ![j + 1] = SetOne(@, i + 1)]
               /\ available_space' = [available_space EXCEPT ![j + 1] = @ - box_width]
               /\ is_box_placed' = TRUE
               /\ j' = j
          ELSE UNCHANGED <<bins, available_space, is_box_placed, j>>
  /\ UNCHANGED <<alg, pc, box_widths, indices, current_bin, i, x, k, result,
                 printed>>

\* A plausible slip: is_box_placed = True is forgotten when the box is placed.
FirstFitProbeForgetsFlag ==
  /\ pc = "ff_while"
  /\ ~is_box_placed
  /\ j < Len(bins)
  /\ LET box_width == FirstFitWidths[i + 1]
     IN IF Fits(box_width, available_space[j + 1])
          THEN /\ bins' = [bins EXCEPT ![j + 1] = SetOne(@, i + 1)]
               /\ available_space' = [available_space EXCEPT ![j + 1] = @ - box_width]
               /\ UNCHANGED <<is_box_placed, j>>
          ELSE /\ j' = j + 1
               /\ UNCHANGED <<bins, available_space, is_box_placed>>
  /\ UNCHANGED <<alg, pc, box_widths, indices, current_bin, i, x, k, result,
                 printed>>

\* One iteration of `while not is_box_placed and j < len(bins)`.
FirstFitProbe ==
  /\ pc = "ff_while"
  /\ ~is_box_placed
  /\ j < Len(bins)
  /\ LET box_width == FirstFitWidths[i + 1]
     IN IF Fits(box_width, available_space[j + 1])
          THEN /\ bins' = [bins EXCEPT ![j + 1] = SetOne(@, i + 1)]
               /\ available_space' = [available_space EXCEPT ![j + 1] = @ - box_width]
               /\ is_box_placed' = TRUE
               /\ j' = j
          ELSE /\ j' = j + 1
               /\ UNCHANGED <<bins, available_space, is_box_placed>>
  /\ UNCHANGED <<alg, pc, box_widths, indices, current_bin, i, x, k, result,
                 printed>>

\* Exit of the while loop and `if not is_box_placed`: the box goes in a new bin.
FirstFitEndBox ==
  /\ pc = "ff_while"
  /\ is_box_placed \/ j >= Len(bins)
  /\ LET box_width == FirstFitWidths[i + 1]
     IN IF ~is_box_placed
          THEN /\ bins' = Append(bins, SetOne(Zeros(Len(FirstFitWidths)), i + 1))
               /\ available_space' = Append(available_space, Capacity - box_width)
          ELSE UNCHANGED <<bins, available_space>>
  /\ i' = i + 1
  /\ pc' = "ff_for"
  /\ UNCHANGED <<alg, box_widths, indices, current_bin, j, is_box_placed, x, k, result,
                 printed>>

\* return tuple(bins): to the caller's assert is_valid_packing(box_widths, bins),
\* or back into first_fit_decreasing.
FirstFitReturn ==
  /\ alg \in {"first_fit", "first_fit_decreasing"}
  /\ pc = "ff_for"
  /\ i = Len(FirstFitWidths)
  /\ pc' = IF alg = "first_fit" THEN "v_check" ELSE "ffd_undo"
  /\ UNCHANGED <<alg, box_widths, indices, bins, current_bin, available_space,
                 i, j, is_box_placed, x, k, result, printed>>

----------------------------------------------------------------------------
(* first_fit_decreasing *)

Permutations(n) == {f \in [1..n -> 1..n] : \A a, b \in 1..n : f[a] = f[b] => a = b}

\* A plausible slip: the negation is forgotten and the sort is increasing.
ArgsortPlain(w) ==
  {perm \in Permutations(Len(w)) :
     \A p \in 1..(Len(w) - 1) : w[perm[p]] <= w[perm[p + 1]]}

\* A plausible slip: the widths are left in the order given.
ArgsortNone(w) == {[p \in 1..Len(w) |-> p]}

\* np.argsort(-box_widths): a permutation that puts -box_widths in
\* non-decreasing order. The default sort kind is not stable, so the order
\* among equal widths is any.
ArgsortNeg(w) ==
  {perm \in Permutations(Len(w)) :
     \A p \in 1..(Len(w) - 1) : -w[perm[p]] <= -w[perm[p + 1]]}

\* undo_sort[indices] = np.arange(box_widths.size), from position m on, into
\* the array u (np.empty_like(indices): its entries are whatever memory held).
RECURSIVE Scatter(_, _, _)
Scatter(u, perm, m) ==
  IF m > Len(perm) THEN u
  ELSE Scatter([u EXCEPT ![perm[m]] = m], perm, m + 1)

\* A plausible slip: the bins are indexed by indices again, not by its inverse.
UndoSortByIndices(garbage, perm) == perm

UndoSort(garbage, perm) == Scatter(garbage, perm, 1)

\* b[undo_sort]
Unpermute(b, undo_sort) == [p \in 1..Len(undo_sort) |-> b[undo_sort[p]]]

\* indices = np.argsort(-box_widths), then the call first_fit(box_widths[indices])
\* up to its loop: bins = [np.zeros(num_boxes)]; available_space = [1].
Argsort ==
  /\ alg = "first_fit_decreasing"
  /\ pc = "ffd_argsort"
  /\ \E perm \in ArgsortNeg(box_widths) : indices' = perm
  /\ bins' = <<Zeros(Len(box_widths))>>
  /\ available_space' = <<Capacity>>
  /\ i' = 0
  /\ pc' = "ff_for"
  /\ UNCHANGED <<alg, box_widths, current_bin, j, is_box_placed, x, k, result,
                 printed>>

\* undo_sort; bins = [b[undo_sort] for b in bins]; return tuple(bins); then the
\* caller's assert is_valid_packing(box_widths, bins).
Unsort ==
  /\ alg = "first_fit_decreasing"
  /\ pc = "ffd_undo"
  /\ \E fill \in 1..(Len(indices) + 1) :
       LET undo_sort == UndoSort([p \in 1..Len(indices) |-> fill], indices)
       IN bins' = [b \in 1..Len(bins) |-> Unpermute(bins[b], undo_sort)]
  /\ pc' = "v_check"
  /\ UNCHANGED <<alg, box_widths, indices, current_bin, available_space,
                 i, j, is_box_placed, x, k, result, printed>>

----------------------------------------------------------------------------
(* The calls made: a packer on box_widths followed by the assert of its      *)
(* result, or is_valid_packing on a packing given by the caller.             *)

\* The five packings the notebook asserts on, with box_widths [0.3, 0.6, 0.9].
test_widths == <<30, 60, 90>>

\* print_bins: filled_bins = [ items[b==1] for b in bins ], the widths of each
\* bin in index order.
RECURSIVE Masked(_, _, _)
Masked(w, b, m) ==
  IF m = 0 THEN <<>>
  ELSE IF b[m] = 1 THEN Append(Masked(w, b, m - 1), w[m]) ELSE Masked(w, b, m - 1)

print_bins(w, bs) == [b \in 1..Len(bs) |-> Masked(w, bs[b], Len(w))]

test_packings ==
  { << <<1, 1, 0>>, <<0, 0, 1>> >>,
    << <<1, 1, 0>>, <<0, 1, 1>> >>,
    << <<1, 0, 0>>, <<0, 0, 1>> >>,
    << <<1, 0, 0>>, <<0, 2, 1>> >>,
    << <<1, 0, 0>>, <<0, 1, 1>> >> }

\* The locals a call starts with.
Locals(a, w) ==
  /\ alg = a
  /\ box_widths = w
  /\ indices = <<>>
  /\ current_bin = IF a = "next_fit" THEN Zeros(Len(w)) ELSE <<>>
  /\ available_space = CASE a = "next_fit" -> Capacity
                         [] a = "first_fit" -> <<Capacity>>
                         [] OTHER -> <<>>
  /\ i = 0
  /\ j = 0
  /\ is_box_placed = FALSE
  /\ x = <<>>
  /\ k = 0
  /\ result = "none"
  /\ printed = <<>>

InitPacker ==
  \E a \in Packers : \E w \in SeqsUpTo(Widths, MaxBoxes) \cup {items} :
    /\ Locals(a, w)
    /\ bins = IF a = "first_fit" THEN <<Zeros(Len(w))>> ELSE <<>>
    /\ pc = CASE a = "next_fit" -> "nf_for"
              [] a = "first_fit" -> "ff_for"
              [] OTHER -> "ffd_argsort"

InitValidator ==
  \/ \E n \in 0..MaxValBoxes : \E w \in [1..n -> ValWidths] :
       \E packing \in SeqsUpTo([1..n -> ValEntries], MaxValBins) :
         /\ Locals("is_valid_packing", w)
         /\ bins = packing
         /\ pc = "v_check"
  \/ \E packing \in test_packings :
       /\ Locals("is_valid_packing", test_widths)
       /\ bins = packing
       /\ pc = "v_check"

\* print(f'Number of bins used by ...: {len(bins)}.'), reached when the assert
\* before it has passed.
PrintNumBins ==
  /\ alg \in Packers
  /\ pc = "done"
  /\ result = "True"
  /\ printed' = Append(printed, Len(bins))
  /\ pc' = "printed"
  /\ UNCHANGED <<alg, box_widths, indices, bins, current_bin, available_space,
                 i, j, is_box_placed, x, k, result>>

\* The locals of packer a called on the widths w, as the next state.
Call(a, w) ==
  /\ alg' = a
  /\ box_widths' = w
  /\ indices' = <<>>
  /\ bins' = IF a = "first_fit" THEN <<Zeros(Len(w))>> ELSE <<>>
  /\ current_bin' = IF a = "next_fit" THEN Zeros(Len(w)) ELSE <<>>
  /\ available_space' = CASE a = "next_fit" -> Capacity
                          [] a = "first_fit" -> <<Capacity>>
                          [] OTHER -> <<>>
  /\ i' = 0
  /\ j' = 0
  /\ is_box_placed' = FALSE
  /\ x' = <<>>
  /\ k' = 0
  /\ result' = "none"
  /\ pc' = CASE a = "next_fit" -> "nf_for"
               [] a = "first_fit" -> "ff_for"
               [] OTHER -> "ffd_argsort"

\* The notebook's next cell: the next packer on the same box_widths
\* (next_fit, then first_fit, then first_fit_decreasing).
NextCell ==
  /\ pc = "printed"
  /\ alg \in {"next_fit", "first_fit"}
  /\ Call(IF alg = "next_fit" THEN "first_fit" ELSE "first_fit_decreasing", box_widths)
  /\ UNCHANGED printed

\* The cell of first_fit_decreasing run once more, on the same widths in
\* another order.
RerunPermuted ==
  /\ pc = "printed"
  /\ alg = "first_fit_decreasing"
  /\ Len(printed) = 1
  /\ \E perm \in Permutations(Len(box_widths)) :
       Call("first_fit_decreasing", Permute(box_widths, perm))
  /\ UNCHANGED printed

Init == InitPacker

Next ==
  \/ NextFitStep
  \/ NextFitReturn
  \/ FirstFitNextBox
  \/ FirstFitProbe
  \/ FirstFitEndBox
  \/ FirstFitReturn
  \/ Argsort
  \/ Unsort
  \/ ValidateCheck
  \/ ValidateBin
  \/ ValidateFinal

Spec == Init /\ [][Next]_vars

\* A call of a packer on up to MaxFairBoxes boxes, run to its end: the
\* interpreter takes every step that can be taken.
InitFair ==
  \E a \in Packers : \E w \in SeqsUpTo(Widths, MaxFairBoxes) :
    /\ Locals(a, w)
    /\ bins = IF a = "first_fit" THEN <<Zeros(Len(w))>> ELSE <<>>
    /\ pc = CASE a = "next_fit" -> "nf_for"
              [] a = "first_fit" -> "ff_for"
              [] OTHER -> "ffd_argsort"

SpecFair == InitFair /\ [][Next]_vars /\ WF_vars(Next)

NextValidator ==
  \/ ValidateCheck
  \/ ValidateBin
  \/ ValidateFinal

SpecValidator == InitValidator /\ [][NextValidator]_vars

\* The three cells of the notebook in order, on one box_widths.
InitNotebook ==
  \E w \in SeqsUpTo(Widths, MaxBoxes) \cup {items} :
    /\ Locals("next_fit", w)
    /\ bins = <<>>
    /\ pc = "nf_for"

NextNotebook ==
  \/ NextFitStep
  \/ NextFitReturn
  \/ FirstFitNextBox
  \/ FirstFitProbe
  \/ FirstFitEndBox
  \/ FirstFitReturn
  \/ Argsort
  \/ Unsort
  \/ ValidateCheck
  \/ ValidateBin
  \/ ValidateFinal
  \/ PrintNumBins
  \/ NextCell

SpecNotebook == InitNotebook /\ [][NextNotebook]_vars

\* first_fit_decreasing on box_widths and then on a rearrangement of it.
InitPermuted ==
  \E w \in SeqsUpTo(PermWidths, MaxPermBoxes) :
    /\ Locals("first_fit_decreasing", w)
    /\ bins = <<>>
    /\ pc = "ffd_argsort"

NextPermuted ==
  \/ FirstFitNextBox
  \/ FirstFitProbe
  \/ FirstFitEndBox
  \/ FirstFitReturn
  \/ Argsort
  \/ Unsort
  \/ ValidateCheck
  \/ ValidateBin
  \/ ValidateFinal
  \/ PrintNumBins
  \/ RerunPermuted

SpecPermuted == InitPermuted /\ [][NextPermuted]_vars

TypeOK ==
  /\ alg \in Packers \cup {"is_valid_packing"}
  /\ result \in {"none", "True", "False", "ValueError", "IndexError"}

----------------------------------------------------------------------------
(* What the claims are stated with. *)

\* A packer has returned its packing in bins (the assert on it may be running).
Returned == alg \in Packers /\ pc \in {"v_check", "v_loop", "done"}

\* A direct call of is_valid_packing has returned or raised.
Validated == alg = "is_valid_packing" /\ pc = "done"

NumBoxes == Len(box_widths)

\* The boxes a membership vector holds.
Members(b) == {p \in 1..Len(b) : b[p] = 1}

RECURSIVE SumOver(_, _)
SumOver(w, S) ==
  IF S = {} THEN 0
  ELSE LET p == CHOOSE q \in S : TRUE IN w[p] + SumOver(w, S \ {p})

\* The total width of the boxes of bin b.
Load(b) == SumOver(box_widths, Members(b))

\* The bins that hold box p.
BinsOf(p) == {b \in 1..Len(bins) : bins[b][p] = 1}

WithinCapacity == \A b \in 1..Len(bins) : Load(bins[b]) <= Capacity

ExactCover == \A p \in 1..NumBoxes : Cardinality(BinsOf(p)) = 1

IsZeroOne(b) == Len(b) = NumBoxes /\ \A p \in 1..Len(b) : b[p] \in {0, 1}

----------------------------------------------------------------------------
\* C1 (feasibility): for widths in [0, 1], the empty sequence included, the
\* assert is_valid_packing(box_widths, P(box_widths)) that follows each of the
\* three packers ends with the result True.
C1_Feasibility ==
  (alg \in Packers /\ pc = "done") => result = "True"

C1_Witness ==
  /\ alg = "first_fit_decreasing"
  /\ pc = "done"
  /\ result = "True"
  /\ Len(bins) >= 2
  /\ NumBoxes >= 3

\* C2 (coverage/uniqueness): in the packing a packer returns for n boxes every
\* bin is a vector of length n with entries 0 or 1, and every box has entry 1
\* in exactly one bin.
C2_Coverage ==
  Returned => /\ \A b \in 1..Len(bins) : IsZeroOne(bins[b])
              /\ ExactCover

C2_Witness ==
  /\ Returned
  /\ alg = "next_fit"
  /\ Len(bins) >= 3
  /\ \E b \in 1..Len(bins) : Cardinality(Members(bins[b])) >= 2

\* C3 (capacity): for widths in [0, 1], every bin of the packing a packer
\* returns has a total width of at most 1.
C3_Capacity ==
  Returned => WithinCapacity

C3_Witness ==
  /\ Returned
  /\ alg = "first_fit"
  /\ \E b \in 1..Len(bins) :
       /\ Cardinality(Members(bins[b])) >= 2
       /\ Load(bins[b]) >= 75
  /\ Len(bins) >= 2

\* Every width lies in [0, 1].
InUnit == \A p \in 1..NumBoxes : 0 <= box_widths[p] /\ box_widths[p] <= Capacity

\* C4 (validator correctness): for widths in [0, 1] and a non-empty sequence
\* of 0/1 membership vectors of length n, is_valid_packing returns True if
\* and only if every bin's total width is at most 1 and every box is in
\* exactly one bin; otherwise it returns False.
C4_ValidatorCorrect ==
  (/\ Validated
   /\ InUnit
   /\ Len(bins) >= 1
   /\ \A b \in 1..Len(bins) : IsZeroOne(bins[b]))
  => /\ result \in {"True", "False"}
     /\ result = "True" <=> (WithinCapacity /\ ExactCover)

\* An overfull bin although every box is in exactly one bin.
C4_Witness ==
  /\ Validated
  /\ InUnit
  /\ Len(bins) >= 2
  /\ \A b \in 1..Len(bins) : IsZeroOne(bins[b])
  /\ ExactCover
  /\ ~WithinCapacity
  /\ result = "False"

\* C5 (fail-fast input check): when some width is below 0 or above 1,
\* is_valid_packing raises ValueError with no bin examined and x not yet
\* allocated, whatever the packing is.
C5_FailFast ==
  (Validated /\ ~InUnit)
  => /\ result = "ValueError"
     /\ k = 0
     /\ x = <<>>

\* A packing that looks feasible, of widths that are out of range.
C5_Witness ==
  /\ Validated
  /\ ~InUnit
  /\ Len(bins) >= 1
  /\ \A b \in 1..Len(bins) : IsZeroOne(bins[b])
  /\ ExactCover
  /\ WithinCapacity
  /\ result = "ValueError"

\* Some width is exactly 0, or is 1 or more.
HasEndWidth == \E p \in 1..NumBoxes : box_widths[p] = 0 \/ box_widths[p] >= Capacity

\* C6 as stated: is_valid_packing does not return True for a sequence that
\* holds a width exactly 0 or a width of 1 or more.
C6_RejectsEnds ==
  (Validated /\ HasEndWidth) => result # "True"

\* C6 as amended: is_valid_packing raises for exactly the sequences that hold
\* a width below 0 or above 1; widths exactly 0 and exactly 1 are accepted,
\* and a feasible packing of them is reported True.
C6_RejectsOutsideUnit ==
  Validated
  => /\ result = "ValueError" <=> ~InUnit
     /\ (/\ InUnit
         /\ HasEndWidth
         /\ Len(bins) >= 1
         /\ \A b \in 1..Len(bins) : IsZeroOne(bins[b])
         /\ WithinCapacity
         /\ ExactCover) => result = "True"

C6_Witness ==
  /\ Validated
  /\ \E p \in 1..NumBoxes : box_widths[p] = 0
  /\ \E p \in 1..NumBoxes : box_widths[p] = Capacity
  /\ result = "True"

IsPermutation(perm) ==
  /\ Len(perm) = NumBoxes
  /\ \A p \in 1..NumBoxes : \E q \in 1..NumBoxes : perm[q] = p

\* The position box p has in the sorted sequence.
SortedPosition(p) == CHOOSE q \in 1..NumBoxes : indices[q] = p

\* C7 (order restoration): where first_fit_decreasing undoes the sort, bins
\* is first_fit's result on the widths in non-increasing order; the bins it
\* returns are as many, and bin b holds box p if and only if bin b of that
\* result holds the sorted position of box p.
C7_OrderRestoration ==
  [][(alg = "first_fit_decreasing" /\ pc = "ffd_undo")
     => /\ IsPermutation(indices)
        /\ \A q \in 1..(NumBoxes - 1) : FirstFitWidths[q] >= FirstFitWidths[q + 1]
        /\ Len(bins') = Len(bins)
        /\ \A b \in 1..Len(bins) :
             /\ Len(bins'[b]) = NumBoxes
             /\ \A p \in 1..NumBoxes :
                  bins'[b][p] = 1 <=> bins[b][SortedPosition(p)] = 1]_vars

\* A sort that is no involution, so that indexing by indices again differs.
C7_Witness ==
  /\ alg = "first_fit_decreasing"
  /\ pc = "v_check"
  /\ Len(bins) >= 2
  /\ \E p \in 1..NumBoxes : indices[indices[p]] # p

Range(f) == {f[p] : p \in 1..Len(f)}

\* The widths each returned bin holds.
Contents == [b \in 1..Len(bins) |-> Range(print_bins(box_widths, bins)[b])]

\* C8 (literal scenario): for the widths [0.09, 0.69, 0.79, 0.29, 0.89, 0.19]
\* next_fit returns the bins {0.09,0.69},{0.79},{0.29},{0.89},{0.19},
\* first_fit the bins {0.09,0.69,0.19},{0.79},{0.29},{0.89} and
\* first_fit_decreasing the bins {0.89,0.09},{0.79,0.19},{0.69,0.29}, in
\* that order.
C8_Example ==
  (Returned /\ box_widths = items)
  => Contents = CASE alg = "next_fit" -> <<{9, 69}, {79}, {29}, {89}, {19}>>
                  [] alg = "first_fit" -> <<{9, 69, 19}, {79}, {29}, {89}>>
                  [] OTHER -> <<{89, 9}, {79, 19}, {69, 29}>>

C8_Witness ==
  /\ Returned
  /\ box_widths = items
  /\ alg = "first_fit_decreasing"
  /\ pc = "done"
  /\ Len(bins) = 3

\* C9 (empty input): for n = 0 each packer returns exactly one bin, and it is
\* the empty vector.
C9_EmptyInput ==
  (Returned /\ NumBoxes = 0) => bins = << <<>> >>

C9_Witness ==
  /\ Returned
  /\ NumBoxes = 0
  /\ alg = "next_fit"
  /\ Len(bins) = 1

\* Some bin holds some box more than once.
HasMultiple == \E b \in 1..Len(bins) : \E p \in 1..Len(bins[b]) : bins[b][p] >= 2

\* C10 (multiplicity detection): for widths in [0, 1] and membership vectors
\* with non-negative integer entries, is_valid_packing returns False whenever
\* some bin holds a box more than once.
C10_Multiplicity ==
  (/\ Validated
   /\ InUnit
   /\ \A b \in 1..Len(bins) :
        Len(bins[b]) = NumBoxes /\ \A p \in 1..NumBoxes : bins[b][p] \in Nat
   /\ HasMultiple)
  => result = "False"

\* Every bin passed the capacity check and the box held twice is in no other bin.
C10_Witness ==
  /\ Validated
  /\ InUnit
  /\ HasMultiple
  /\ k = Len(bins)
  /\ \A p \in 1..NumBoxes : Cardinality({b \in 1..Len(bins) : bins[b][p] >= 1}) = 1
  /\ result = "False"

\* C11 (no per-instance ordering of the bin counts): on every two boxes whose
\* widths add up to exactly 1, next_fit prints 1 bin and first_fit prints 2,
\* so first_fit <= next_fit fails on a valid input.
C11_FirstFitAboveNextFit ==
  (/\ Len(printed) >= 2
   /\ NumBoxes = 2
   /\ box_widths[1] + box_widths[2] = Capacity)
  => printed[1] = 1 /\ printed[2] = 2

\* All three cells ran on widths strictly inside (0, 1), and first_fit used
\* more bins than next_fit.
C11_Witness ==
  /\ Len(printed) = 3
  /\ \A p \in 1..NumBoxes : 0 < box_widths[p] /\ box_widths[p] < Capacity
  /\ printed[2] > printed[1]

\* C12 (first_fit_decreasing depends on the multiset of widths only): when
\* first_fit_decreasing is run on box_widths and then on any rearrangement of
\* it, with any order of equal widths chosen by the sort in either run, both
\* asserts pass and both runs print the same number of bins.
C12_MultisetOnly ==
  /\ (alg = "first_fit_decreasing" /\ pc = "done") => result = "True"
  /\ Len(printed) = 2 => printed[1] = printed[2]

\* A second run on widths that are not all equal, with more than one bin,
\* sorted by a permutation that is not the identity.
C12_Witness ==
  /\ Len(printed) = 2
  /\ printed[2] >= 2
  /\ \E p \in 1..NumBoxes : indices[p] # p
  /\ \E p, q \in 1..NumBoxes : box_widths[p] = box_widths[q] /\ p # q
  /\ \E p, q \in 1..NumBoxes : box_widths[p] # box_widths[q]

\* C13 (boolean result): for widths in [0, 1] and a packing of any number of
\* length-n vectors, no vector at all included, is_valid_packing ends with
\* True or False; ValueError for out-of-range widths is the only error.
C13_BooleanResult ==
  Validated
  => /\ result \in {"True", "False", "ValueError"}
     /\ InUnit => result \in {"True", "False"}

\* The probes of the inner scan for the box at hand are at most the bins open:
\* j counts the bins that refused the box, and a bin that takes it is open.
ScanWithinOpenBins ==
  pc = "ff_while"
  => /\ j <= Len(bins)
     /\ is_box_placed => j < Len(bins)

\* C14 (totality and termination): for widths in [0, 1] each of next_fit,
\* first_fit and first_fit_decreasing ends, with every box in exactly one bin
\* and no error raised by the call or by the assert on its result; the inner
\* scan of first_fit probes at most the bins open for each box.
C14_Termination ==
  /\ <>(pc = "done" /\ result = "True" /\ ExactCover)
  /\ [](result \in {"none", "True"})
  /\ []ScanWithinOpenBins

\* first_fit has ended, and its last box was refused by each of two or more
\* open bins before a bin was opened for it.
C14_Witness ==
  /\ alg = "first_fit"
  /\ pc = "done"
  /\ result = "True"
  /\ ~is_box_placed
  /\ j >= 2
  /\ j = Len(bins) - 1

\* C15 (next_fit transition rule): at each box, taken in input order,
\* next_fit closes the current bin and opens a fresh one, of space 1, exactly
\* when the box is strictly wider than available_space; a box as wide as the
\* space left goes in the current bin; the box is always placed in the bin
\* that is current after the step.
C15_TransitionRule ==
  [][(alg = "next_fit" /\ pc = "nf_for" /\ i' = i + 1)
     => LET box_width == box_widths[i + 1]
        IN /\ Len(bins') = Len(bins) + 1 <=> box_width > available_space
           /\ box_width > available_space
              => /\ bins' = Append(bins, current_bin)
                 /\ Members(current_bin') = {i + 1}
                 /\ available_space' = Capacity - box_width
           /\ box_width <= available_space
              => /\ bins' = bins
                 /\ Members(current_bin') = Members(current_bin) \cup {i + 1}
                 /\ available_space' = available_space - box_width
           /\ current_bin'[i + 1] = 1]_vars

\* A box of positive width as wide as the space left was placed in the current
\* bin, after an earlier box had opened that bin.
C15_Witness ==
  /\ alg = "next_fit"
  /\ pc = "nf_for"
  /\ available_space = 0
  /\ Len(bins) >= 1
  /\ Cardinality(Members(current_bin)) >= 2
  /\ \A p \in Members(current_bin) : 0 < box_widths[p] /\ box_widths[p] < Capacity

\* The space bin b has for the box at hand: 1 minus the widths of the boxes
\* placed in it before this box.
SpaceBefore(b) == Capacity - SumOver(FirstFitWidths, Members(bins'[b]) \ {i + 1})

\* The open bins that accept the box at hand.
Accepting == {b \in 1..Len(bins) : SpaceBefore(b) > FirstFitWidths[i + 1]}

IsRun(b) ==
  \A p, q \in Members(b) : \A r \in 1..NumBoxes : (p < r /\ r < q) => r \in Members(b)

\* C17 (next_fit is forward-only): in the packing next_fit returns each box
\* has one bin, whose index does not decrease as the box index grows, so each
\* bin holds a run of consecutive boxes; a bin, once appended to the output,
\* is never changed, also when a later box would fit in it.
C17_ForwardOnly ==
  /\ []((alg = "next_fit" /\ Returned)
        => /\ \A p \in 1..NumBoxes : Cardinality(BinsOf(p)) = 1
           /\ \A p, q \in 1..NumBoxes :
                p <= q => \A b \in BinsOf(p) : \A c \in BinsOf(q) : b <= c
           /\ \A b \in 1..Len(bins) : IsRun(bins[b]))
  /\ [][alg = "next_fit"
        => /\ Len(bins') >= Len(bins)
           /\ \A b \in 1..Len(bins) : bins'[b] = bins[b]]_vars

\* next_fit has returned, and a box of positive width in a later bin is no
\* wider than the space left in an earlier bin.
C17_Witness ==
  /\ alg = "next_fit"
  /\ Returned
  /\ \E b, c \in 1..Len(bins) :
       /\ b < c
       /\ \E q \in Members(bins[c]) :
            /\ box_widths[q] > 0
            /\ box_widths[q] <= Capacity - Load(bins[b])

\* C18 (next_fit bookkeeping): at every step of next_fit on widths in [0, 1],
\* available_space is 1 minus the total width of the boxes in the current
\* bin, and it is never negative.
C18_SpaceOfCurrentBin ==
  alg = "next_fit"
  => /\ available_space = Capacity - Load(current_bin)
     /\ available_space >= 0

\* next_fit is at work on its second bin or a later one, which holds two or
\* more boxes and has space left.
C18_Witness ==
  /\ alg = "next_fit"
  /\ pc = "nf_for"
  /\ Len(bins) >= 1
  /\ Cardinality(Members(current_bin)) >= 2
  /\ 0 < available_space
  /\ available_space < Capacity

\* first_fit is at work (called directly or by first_fit_decreasing).
InFirstFit == pc \in {"ff_for", "ff_while"}

\* The bins a step changes: those it appends and those it writes to.
Changed == {b \in 1..Len(bins') : b > Len(bins) \/ bins'[b] # bins[b]}

\* C19 (first_fit monotonicity): across every step of first_fit the list of
\* bins only grows by appending, with no bin removed, merged or moved; an
\* entry once 1 is never cleared; the placement of a box changes exactly one
\* bin; no bin's available_space ever increases.
C19_Monotonic ==
  [][InFirstFit
     => /\ Len(bins') \in {Len(bins), Len(bins) + 1}
        /\ \A b \in 1..Len(bins) : \A p \in 1..Len(bins[b]) :
             (p # i + 1 \/ bins[b][p] = 1) => bins'[b][p] = bins[b][p]
        /\ \A b \in 1..Len(bins) : available_space'[b] <= available_space[b]
        /\ Cardinality(Changed) <= 1
        /\ (pc = "ff_for" /\ pc' = "ff_while")
           => \A b \in 1..Len(bins') : Members(bins'[b]) \subseteq 1..i
        /\ (pc = "ff_while" /\ pc' = "ff_for")
           => /\ Cardinality({b \in 1..Len(bins') : i + 1 \in Members(bins'[b])}) = 1
              /\ \A b \in 1..Len(bins') : Members(bins'[b]) \subseteq 1..(i + 1)]_vars

\* first_fit has just placed a box in a bin that held a box already and is
\* not the last of the open bins.
C19_Witness ==
  /\ alg = "first_fit"
  /\ pc = "ff_while"
  /\ is_box_placed
  /\ j + 1 < Len(bins)
  /\ Cardinality(Members(bins[j + 1])) >= 2

\* C20 (first_fit bookkeeping): at every step of first_fit on widths in
\* [0, 1], bins and available_space have the same length, at least 1, and
\* for every bin j available_space[j] is 1 minus the total width of the boxes
\* in bin j and is not negative.
C20_SpaceOfEachBin ==
  InFirstFit
  => /\ Len(bins) = Len(available_space)
     /\ Len(bins) >= 1
     /\ \A b \in 1..Len(bins) :
          /\ available_space[b] = Capacity - SumOver(FirstFitWidths, Members(bins[b]))
          /\ available_space[b] >= 0

\* first_fit holds two bins or more, one with two boxes or more and space
\* left, and one that is full.
C20_Witness ==
  /\ alg = "first_fit"
  /\ pc = "ff_for"
  /\ \E b, c \in 1..Len(bins) :
       /\ Cardinality(Members(bins[b])) >= 2
       /\ available_space[b] > 0
       /\ available_space[c] = 0

\* C21 (next_fit returns no empty bin): for one box or more, of widths in
\* [0, 1], every bin next_fit returns holds at least one box, so the number
\* of bins is between 1 and the number of boxes.
C21_NextFitNoEmptyBin ==
  (alg = "next_fit" /\ Returned /\ NumBoxes >= 1)
  => /\ \A b \in 1..Len(bins) : Members(bins[b]) # {}
     /\ 1 <= Len(bins)
     /\ Len(bins) <= NumBoxes

\* next_fit has returned as many bins as boxes, the first box being exactly
\* as wide as a bin.
C21_Witness ==
  /\ alg = "next_fit"
  /\ Returned
  /\ NumBoxes >= 2
  /\ box_widths[1] = Capacity
  /\ Len(bins) = NumBoxes

\* C22 (first_fit returns no empty bin): for one box or more, of widths in
\* [0, 1], widths exactly 0 and exactly 1 included, every bin first_fit
\* returns holds at least one box, so the number of bins is at most the
\* number of boxes.
C22_FirstFitNoEmptyBin ==
  (alg = "first_fit" /\ Returned /\ NumBoxes >= 1)
  => /\ \A b \in 1..Len(bins) : Members(bins[b]) # {}
     /\ Len(bins) <= NumBoxes

\* The lowest-index box of bin b.
FirstBox(b) == CHOOSE p \in Members(b) : \A q \in Members(b) : p <= q

\* C23 (next_fit opens a bin only when it must): in the packing next_fit
\* returns, for every two consecutive bins j and j+1 the total width of bin j
\* plus the width of the lowest-index box of bin j+1 is strictly greater
\* than 1.
C23_NextBinWasNeeded ==
  (alg = "next_fit" /\ Returned)
  => \A b \in 1..(Len(bins) - 1) :
       /\ Members(bins[b + 1]) # {}
       /\ Load(bins[b]) + box_widths[FirstBox(bins[b + 1])] > Capacity

\* next_fit has returned two bins or more; one bin of two boxes or more has
\* space left, and is followed by a bin that holds more than its first box.
C23_Witness ==
  /\ alg = "next_fit"
  /\ Returned
  /\ Len(bins) >= 2
  /\ \E b \in 1..(Len(bins) - 1) :
       /\ Cardinality(Members(bins[b])) >= 2
       /\ Load(bins[b]) < Capacity
       /\ Cardinality(Members(bins[b + 1])) >= 2
====
